---- MODULE Spec2Model ----
(***************************************************************************)
(* Model of lib/argument_parser.js: ArgumentParser.parseArgs,              *)
(* parseKnownArgs and _parseKnownArgs with the token classifier, the       *)
(* option resolver (_parseOptional, _getOptionTuples), the arity matcher   *)
(* (_getNargsPattern, _matchArgument, _matchArgumentsPartial), the         *)
(* consumption loop (consumeOptional, consumePositionals, takeAction) and  *)
(* value conversion (_getValues, _getValue, _checkValue).                  *)
(*                                                                         *)
(* A command-line token is a sequence of one-character strings.  Indices   *)
(* into argStrings and into the pattern string are 0-based as in the       *)
(* source; Slice and Substr translate to 1-based sequences.                *)
(***************************************************************************)
EXTENDS Integers, Sequences, FiniteSets, TLC

\* ------------------------------------------------------------------------
\* Bounds

\* longest argument list handed to the parser
MaxArgs == 3

\* ------------------------------------------------------------------------
\* JavaScript string / array primitives

\* var x = v; ... : the statements F that follow a local variable's
\* assignment, read with the value v it was given
Let(v, F(_)) == F(v)

Min(a, b) == IF a < b THEN a ELSE b
Max(a, b) == IF a > b THEN a ELSE b

\* Array.prototype.slice(start, stop) / String.prototype.substring, 0-based,
\* clamped to the length
Slice(s, start, stop) ==
  LET lo == Min(Max(start, 0), Len(s))
      hi == Min(Max(stop, lo), Len(s))
  IN  [k \in 1..(hi - lo) |-> s[lo + k]]

\* String.prototype.substr(start) and _.rest(array, start)
Substr(s, start) == Slice(s, start, Len(s))

\* s.substr(0, Len(p)) === p
StartsWith(s, p) == Slice(s, 0, Len(p)) = p

\* s.indexOf(c) >= 0
Contains(s, c) == \E k \in 1..Len(s) : s[k] = c

\* position (1-based) of the first occurrence of c in s, 0 when absent
RECURSIVE FirstIndex(_, _, _)
FirstIndex(s, c, k) ==
  IF k > Len(s) THEN 0
  ELSE IF s[k] = c THEN k
  ELSE FirstIndex(s, c, k + 1)

\* String.prototype.split(sep): every piece between separators
RECURSIVE Split(_, _)
Split(s, sep) ==
  LET k == FirstIndex(s, sep, 1)
  IN  IF k = 0 THEN <<s>>
      ELSE <<Slice(s, 0, k - 1)>> \o Split(Substr(s, k), sep)

\* array.filter(pred) for the one predicate the source uses: element !== x
RECURSIVE FilterNot(_, _)
FilterNot(s, x) ==
  IF s = <<>> THEN <<>>
  ELSE IF s[1] = x THEN FilterNot(Tail(s), x)
  ELSE <<s[1]>> \o FilterNot(Tail(s), x)

\* ------------------------------------------------------------------------
\* JavaScript values held by the namespace: one record shape for all of them
\*   t = "str"   : the string s
\*   t = "int"   : the number n
\*   t = "list"  : the array items (of scalar values)
\*   t = "true" / "false" / "null" / "undefined"

Str(s)      == [t |-> "str",  s |-> s,    n |-> 0, items |-> <<>>]
Num(n)      == [t |-> "int",  s |-> <<>>, n |-> n, items |-> <<>>]
List(items) == [t |-> "list", s |-> <<>>, n |-> 0, items |-> items]
JsTrue      == [t |-> "true",  s |-> <<>>, n |-> 0, items |-> <<>>]
JsFalse     == [t |-> "false", s |-> <<>>, n |-> 0, items |-> <<>>]
JsNull      == [t |-> "null",  s |-> <<>>, n |-> 0, items |-> <<>>]
Undefined   == [t |-> "undefined", s |-> <<>>, n |-> 0, items |-> <<>>]

\* !!v
Truthy(v) ==
  CASE v.t = "str"  -> v.s # <<>>
    [] v.t = "int"  -> v.n # 0
    [] v.t = "list" -> TRUE
    [] v.t = "true" -> TRUE
    [] OTHER        -> FALSE

\* ------------------------------------------------------------------------
\* Constants of lib/const.js as the parser uses them

OPTIONAL     == "?"
ZERO_OR_MORE == "*"
ONE_OR_MORE  == "+"
PARSER       == "A..."
REMAINDER    == "..."
SUPPRESS     == Str(<<"==SUPPRESS==">>)

\* nargs left unset (undefined / null): a single argument
NARGS_NULL   == "null"

\* a numeric nargs is written as its decimal digit
NargsNumber(nargs) ==
  CASE nargs = "0" -> 0
    [] nargs = "1" -> 1
    [] nargs = "2" -> 2
    [] nargs = "3" -> 3
    [] OTHER       -> 0

\* !action.nargs : unset, or the number 0
NargsFalsy(nargs) == nargs = NARGS_NULL \/ nargs = "0"

\* ------------------------------------------------------------------------
\* Tokens used by the parsers below

tSep    == <<"-", "-">>
tName   == <<"-", "-", "n", "a", "m", "e">>
tNum    == <<"-", "-", "n", "u", "m">>
tNumbers == <<"-", "-", "n", "u", "m", "b", "e", "r", "s">>
tN      == <<"-", "-", "n">>
tNa     == <<"-", "-", "n", "a">>
tZz     == <<"-", "-", "z", "z">>
tFoo    == <<"-", "-", "f", "o", "o">>
tLevel  == <<"-", "-", "l", "e", "v", "e", "l">>
tPair   == <<"-", "-", "p", "a", "i", "r">>
tA      == <<"-", "a">>
tB      == <<"-", "b">>
tC      == <<"-", "c">>
tAbc    == <<"-", "a", "b", "c">>
tAb     == <<"-", "a", "b">>
tAx     == <<"-", "a", "x">>
tNeg5   == <<"-", "5">>
tX      == <<"x">>
tY      == <<"y">>
t5      == <<"5">>
t7      == <<"7">>
tLow    == <<"l", "o", "w">>
tHigh   == <<"h", "i", "g", "h">>
tMedium == <<"m", "e", "d", "i", "u", "m">>
tLength == <<"l", "e", "n", "g", "t", "h">>
tAlice  == <<"a", "l", "i", "c", "e">>
tBob    == <<"b", "o", "b">>
tSeed   == <<"s", "e", "e", "d">>
tFlag   == <<"-", "-", "f", "l", "a", "g">>
tNameEqX    == tName \o <<"=", "x">>
tNameEqXEqY == tName \o <<"=", "x", "=", "y">>
tNameEq     == tName \o <<"=">>
tFlagEqX    == tFlag \o <<"=", "x">>
tFlagEqEqX  == tFlag \o <<"=", "=", "x">>
tAbx    == <<"-", "a", "b", "x">>

\* ------------------------------------------------------------------------
\* Action schema (lib/action.js and lib/action/*.js are the schema
\* collaborator: the parser reads these fields and calls the Action)

NoChoices == <<>>

Action(optionStrings, dest, nargs, type, defaultValue, constant, choices, required, call) ==
  [optionStrings |-> optionStrings, dest |-> dest, nargs |-> nargs,
   type |-> type, defaultValue |-> defaultValue, constant |-> constant,
   hasChoices |-> choices # NoChoices, choices |-> choices,
   required |-> required, call |-> call]

\* action.isPositional(): no option strings
isPositional(action) == action.optionStrings = <<>>

\* action.isOptional()
isOptional(action) == ~isPositional(action)

StoreOption(optionString, dest) ==
  Action(<<optionString>>, dest, NARGS_NULL, "null", JsNull, JsNull,
         NoChoices, FALSE, "store")

StoreTrueOption(optionString, dest) ==
  Action(<<optionString>>, dest, "0", "null", JsFalse, JsTrue,
         NoChoices, FALSE, "storeConst")

Positional(dest, nargs, defaultValue, required) ==
  Action(<<>>, dest, nargs, "null", defaultValue, JsNull,
         NoChoices, required, "store")

\* --name, --num (type int, default given as the string "7"),
\* --numbers (nargs '+')
StoreActions ==
  << StoreOption(tName, "name"),
     [StoreOption(tNum, "num") EXCEPT !.type = "int",
                                      !.defaultValue = Str(t7)],
     [StoreOption(tNumbers, "numbers") EXCEPT !.nargs = ONE_OR_MORE] >>

\* -a, -b, -c: zero-arity single-dash flags
FlagActions ==
  << StoreTrueOption(tA, "a"), StoreTrueOption(tB, "b"),
     StoreTrueOption(tC, "c") >>

\* --level with choices [low, high]; --pair with nargs 2
ChoiceActions ==
  << [StoreOption(tLevel, "level") EXCEPT
        !.hasChoices = TRUE, !.choices = <<Str(tLow), Str(tHigh)>>],
     [StoreOption(tPair, "pair") EXCEPT !.nargs = "2"] >>

\* one positional with nargs '*' and a list default
StarActions ==
  << Positional("files", ZERO_OR_MORE, List(<<Str(tX)>>), FALSE) >>

\* one required positional
ReqActions ==
  << Positional("name", NARGS_NULL, JsNull, TRUE) >>

\* two required positionals (the second with nargs 2) and a flag
MixedActions ==
  << Positional("src", NARGS_NULL, JsNull, TRUE),
     Positional("dst", "2", JsNull, TRUE),
     StoreTrueOption(tA, "a") >>

\* a positional with nargs '?' (type int, string default), a flag and an
\* option of the default arity
OptActions ==
  << [Positional("opt", OPTIONAL, Str(t7), FALSE) EXCEPT !.type = "int"],
     StoreTrueOption(tA, "a"),
     StoreOption(tName, "name") >>

\* two required positionals of the default arity and a flag
PairActions ==
  << Positional("src", NARGS_NULL, JsNull, TRUE),
     Positional("dst", NARGS_NULL, JsNull, TRUE),
     StoreTrueOption(tA, "a") >>

\* an option of the default arity and a zero-arity double-dash flag
EqActions ==
  << StoreOption(tName, "name"), StoreTrueOption(tFlag, "flag") >>

\* one positional with nargs '...' (type int, choices [5])
RestActions ==
  << [Positional("rest", REMAINDER, JsNull, FALSE) EXCEPT
        !.type = "int", !.hasChoices = TRUE, !.choices = <<Num(5)>>] >>

\* one required positional with nargs 'A...' (type int, choices [5])
HandoffActions ==
  << [Positional("cmd", PARSER, JsNull, TRUE) EXCEPT
        !.type = "int", !.hasChoices = TRUE, !.choices = <<Num(5)>>] >>

NoDefaults == [d \in {} |-> JsNull]
NoSeed     == [d \in {} |-> JsNull]

\* A parser: its Actions in registration order, the parser-level defaults
\* (setDefaults), its prefix characters; with it the token alphabet and
\* the caller's namespaces the parser is run on.
Parsers ==
  { [actions |-> StoreActions, defaults |-> NoDefaults, prefixChars |-> {"-"},
     tokens |-> {tName, tNum, tN, tNa, tX, tNeg5, tSep, tZz},
     seeds |-> {NoSeed}],
    [actions |-> FlagActions, defaults |-> NoDefaults, prefixChars |-> {"-"},
     tokens |-> {tA, tB, tC, tAbc, tAb, tAx, tAbx, tX, tSep},
     seeds |-> {NoSeed}],
    [actions |-> ChoiceActions, defaults |-> NoDefaults, prefixChars |-> {"-"},
     tokens |-> {tLevel, tPair, tLow, tHigh, tMedium, tLength, tX, tY},
     seeds |-> {NoSeed}],
    [actions |-> StarActions, defaults |-> NoDefaults, prefixChars |-> {"-"},
     tokens |-> {tSep, tFoo, tX, tY},
     seeds |-> {NoSeed, [d \in {"files"} |-> Str(tSeed)]}],
    [actions |-> ReqActions, defaults |-> NoDefaults, prefixChars |-> {"-"},
     tokens |-> {tAlice, tBob, tSep, tZz},
     seeds |-> {NoSeed}],
    [actions |-> MixedActions, defaults |-> NoDefaults, prefixChars |-> {"-"},
     tokens |-> {tX, tY, tA, tSep},
     seeds |-> {NoSeed}],
    [actions |-> PairActions, defaults |-> NoDefaults, prefixChars |-> {"-"},
     tokens |-> {tX, tY, tA},
     seeds |-> {NoSeed}],
    [actions |-> EqActions, defaults |-> NoDefaults, prefixChars |-> {"-"},
     tokens |-> {tNameEqX, tNameEqXEqY, tNameEq, tFlagEqX, tFlagEqEqX, tY},
     seeds |-> {NoSeed}],
    [actions |-> RestActions, defaults |-> NoDefaults, prefixChars |-> {"-"},
     tokens |-> {t5, t7, tX},
     seeds |-> {NoSeed}],
    [actions |-> HandoffActions, defaults |-> NoDefaults, prefixChars |-> {"-"},
     tokens |-> {t5, t7, tX},
     seeds |-> {NoSeed}],
    [actions |-> OptActions, defaults |-> [d \in {"mode"} |-> Str(tLow)],
     prefixChars |-> {"-"},
     tokens |-> {t5, tX, tA, tSep, tName},
     seeds |-> {NoSeed}] }

\* this._optionStringActions: option string -> Action, in registration
\* order (the order `for ... in` enumerates it)
RECURSIVE OptionStringActionsFrom(_, _)
OptionStringActionsFrom(actions, i) ==
  IF i > Len(actions) THEN <<>>
  ELSE [k \in 1..Len(actions[i].optionStrings) |->
          [optionString |-> actions[i].optionStrings[k], action |-> i]]
       \o OptionStringActionsFrom(actions, i + 1)

optionStringActions(p) == OptionStringActionsFrom(p.actions, 1)

\* this._optionStringActions[s]: index of the owning Action, 0 when absent
LookupOption(p, s) ==
  LET m == optionStringActions(p)
      hits == {k \in 1..Len(m) : m[k].optionString = s}
  IN  IF hits = {} THEN 0 ELSE m[CHOOSE k \in hits : TRUE].action

\* this._getPositionalActions(): indices of the positional Actions
RECURSIVE PositionalsFrom(_, _)
PositionalsFrom(actions, i) ==
  IF i > Len(actions) THEN <<>>
  ELSE (IF isPositional(actions[i]) THEN <<i>> ELSE <<>>)
       \o PositionalsFrom(actions, i + 1)

getPositionalActions(p) == PositionalsFrom(p.actions, 1)

\* ------------------------------------------------------------------------
\* Regular expressions over the pattern alphabet {A, O, -}
\*
\* The source builds each nargs pattern as one capture group of atoms; an
\* atom is a character class with a quantifier: "1" (exactly one), "?"
\* or "*".  A regular expression is the sequence of its atoms, each
\* tagged with the number g of the capture group it belongs to.

Atom(set, q) == [set |-> set, q |-> q]

MatchFail == [ok |-> FALSE, counts |-> <<>>]

\* number of consecutive characters of s, from 0-based position pos on,
\* that belong to set
RECURSIVE Run(_, _, _)
Run(s, pos, set) ==
  IF pos < Len(s) /\ s[pos + 1] \in set THEN 1 + Run(s, pos + 1, set) ELSE 0

\* Backtracking match of atoms[i..] at position pos, as the RegExp engine
\* does it: every quantifier is greedy and gives characters back one at a
\* time until the rest of the expression matches.  There is no end anchor.
RECURSIVE MatchAtoms(_, _, _, _), TryCount(_, _, _, _, _, _)
MatchAtoms(atoms, i, s, pos) ==
  IF i > Len(atoms) THEN [ok |-> TRUE, counts |-> <<>>]
  ELSE LET run == Run(s, pos, atoms[i].set)
           hi  == IF atoms[i].q = "*" THEN run ELSE Min(run, 1)
           lo  == IF atoms[i].q = "1" THEN 1 ELSE 0
       IN  TryCount(atoms, i, s, pos, hi, lo)

TryCount(atoms, i, s, pos, k, lo) ==
  IF k < lo THEN MatchFail
  ELSE Let(MatchAtoms(atoms, i + 1, s, pos + k), LAMBDA r :
         IF r.ok THEN [ok |-> TRUE, counts |-> <<k>> \o r.counts]
         ELSE TryCount(atoms, i, s, pos, k - 1, lo))

\* string.match(regexp) without the g flag and without a ^ anchor: the
\* leftmost position at which the expression matches
RECURSIVE MatchSearch(_, _, _)
MatchSearch(atoms, s, pos) ==
  IF pos > Len(s) THEN MatchFail
  ELSE Let(MatchAtoms(atoms, 1, s, pos), LAMBDA r :
         IF r.ok THEN r ELSE MatchSearch(atoms, s, pos + 1))

RECURSIVE SumWhere(_, _, _, _)
SumWhere(atoms, counts, g, i) ==
  IF i > Len(atoms) THEN 0
  ELSE (IF atoms[i].g = g THEN counts[i] ELSE 0)
       + SumWhere(atoms, counts, g, i + 1)

\* matches.splice(1).map(getLength): the length of every capture group
\* (groups |-> number of groups of the expression)
GroupLengths(atoms, groups, counts) ==
  [g \in 1..groups |-> SumWhere(atoms, counts, g, 1)]

\* ------------------------------------------------------------------------
\* ArgumentParser.prototype._getNargsPattern

\* mutant of RepeatAtoms: one repetition short
RECURSIVE RepeatAtoms_OneShort(_, _)
RepeatAtoms_OneShort(atoms, n) ==
  IF n <= 1 THEN <<>> ELSE atoms \o RepeatAtoms_OneShort(atoms, n - 1)

RECURSIVE RepeatAtoms(_, _)
RepeatAtoms(atoms, n) ==
  IF n = 0 THEN <<>> ELSE atoms \o RepeatAtoms(atoms, n - 1)

\* regexpNargs.replace(/-\*/g, ''): drop every atom that is the literal
\* '-' under a star
RECURSIVE DropDashStar(_)
DropDashStar(atoms) ==
  IF atoms = <<>> THEN <<>>
  ELSE (IF atoms[1] = Atom({"-"}, "*") THEN <<>> ELSE <<atoms[1]>>)
       \o DropDashStar(Tail(atoms))

\* regexpNargs.replace(/-/g, ''): take '-' out of what is left
DropDash(atoms) ==
  [k \in 1..Len(atoms) |-> Atom(atoms[k].set \ {"-"}, atoms[k].q)]

DashStar == Atom({"-"}, "*")
OneA     == Atom({"A"}, "1")

getNargsPattern(action) ==
  LET regexpNargs ==
        CASE action.nargs = NARGS_NULL ->
               \* (-*A-*)
               <<DashStar, OneA, DashStar>>
          [] action.nargs = OPTIONAL ->
               \* (-*A?-*)
               <<DashStar, Atom({"A"}, "?"), DashStar>>
          [] action.nargs = ZERO_OR_MORE ->
               \* (-*[A-]*)
               <<DashStar, Atom({"A", "-"}, "*")>>
          [] action.nargs = ONE_OR_MORE ->
               \* (-*A[A-]*)
               <<DashStar, OneA, Atom({"A", "-"}, "*")>>
          [] action.nargs = REMAINDER ->
               \* ([-AO]*)
               <<Atom({"-", "A", "O"}, "*")>>
          [] action.nargs = PARSER ->
               \* (-*A[-AO]*)
               <<DashStar, OneA, Atom({"-", "A", "O"}, "*")>>
          [] OTHER ->
               \* '(-*' + repeat('-*A', nargs) + '-*)'
               <<DashStar>>
               \o RepeatAtoms(<<DashStar, OneA>>, NargsNumber(action.nargs))
               \o <<DashStar>>
  IN  IF isOptional(action) THEN DropDash(DropDashStar(regexpNargs))
      ELSE regexpNargs

\* the atoms of one Action's pattern, tagged as capture group g
Group(action, g) ==
  Let(getNargsPattern(action), LAMBDA atoms :
    [k \in 1..Len(atoms) |->
       [set |-> atoms[k].set, q |-> atoms[k].q, g |-> g]])

\* ------------------------------------------------------------------------
\* ArgumentParser.prototype._matchArgument: the number of pattern
\* characters captured for one Action, or the arity error

matchArgument(action, regexpArgStrings) ==
  Let(Group(action, 1), LAMBDA regexpNargs :
    Let(MatchSearch(regexpNargs, regexpArgStrings, 0), LAMBDA matches :
      IF ~matches.ok THEN [err |-> "ArityMismatch", count |-> 0]
      ELSE [err |-> "none",
            count |-> GroupLengths(regexpNargs, 1, matches.counts)[1]]))

\* ------------------------------------------------------------------------
\* ArgumentParser.prototype._matchArgumentsPartial: actions is a sequence
\* of Action records; the result is the list of counts of the longest
\* prefix of actions whose concatenated pattern matches

RECURSIVE ConcatGroups(_, _)
ConcatGroups(actions, j) ==
  IF j > Len(actions) THEN <<>>
  ELSE Group(actions[j], j) \o ConcatGroups(actions, j + 1)

RECURSIVE MatchPartialFrom(_, _, _)
MatchPartialFrom(actions, regexpArgStrings, i) ==
  IF i <= 0 THEN <<>>
  ELSE Let(ConcatGroups(SubSeq(actions, 1, i), 1), LAMBDA pattern :
         Let(MatchSearch(pattern, regexpArgStrings, 0), LAMBDA matches :
           IF matches.ok THEN GroupLengths(pattern, i, matches.counts)
           ELSE MatchPartialFrom(actions, regexpArgStrings, i - 1)))

matchArgumentsPartial(actions, regexpArgStrings) ==
  MatchPartialFrom(actions, regexpArgStrings, Len(actions))

\* ------------------------------------------------------------------------
\* Option resolver

Digits == {"0", "1", "2", "3", "4", "5", "6", "7", "8", "9"}

AllIn(s, set) == \A k \in 1..Len(s) : s[k] \in set

\* this._regexpNegativeNumber (lib/action_container.js):
\* ^-\d+$ | ^-\d*\.\d+$
MatchesNegativeNumber(s) ==
  /\ Len(s) >= 2
  /\ s[1] = "-"
  /\ \/ AllIn(Tail(s), Digits)
     \/ \E d \in 2..(Len(s) - 1) :
          /\ s[d] = "."
          /\ AllIn(SubSeq(s, 2, d - 1), Digits)
          /\ AllIn(SubSeq(s, d + 1, Len(s)), Digits)

\* this._hasNegativeNumberOptionals (lib/action_container.js): some
\* declared option string looks like a negative number
hasNegativeNumberOptionals(p) ==
  \E k \in 1..Len(optionStringActions(p)) :
     MatchesNegativeNumber(optionStringActions(p)[k].optionString)

\* an option tuple [action, optionString, explicitArg]; action 0 is null
OptionTuple(action, optionString, explicitArg) ==
  [action |-> action, optionString |-> optionString,
   explicitArg |-> explicitArg]

\* mutant of DoubleTuples: the search stops at the first option string
\* that starts with the prefix
RECURSIVE DoubleTuples_FirstOnly(_, _, _, _)
DoubleTuples_FirstOnly(m, k, optionPrefix, argExplicit) ==
  IF k > Len(m) THEN <<>>
  ELSE IF StartsWith(m[k].optionString, optionPrefix)
  THEN <<OptionTuple(m[k].action, m[k].optionString, argExplicit)>>
  ELSE DoubleTuples_FirstOnly(m, k + 1, optionPrefix, argExplicit)

\* ArgumentParser.prototype._getOptionTuples
RECURSIVE DoubleTuples(_, _, _, _), SingleTuples(_, _, _, _, _)
DoubleTuples(m, k, optionPrefix, argExplicit) ==
  IF k > Len(m) THEN <<>>
  ELSE (IF StartsWith(m[k].optionString, optionPrefix)
        THEN <<OptionTuple(m[k].action, m[k].optionString, argExplicit)>>
        ELSE <<>>)
       \o DoubleTuples(m, k + 1, optionPrefix, argExplicit)

SingleTuples(m, k, optionPrefix, optionPrefixShort, argExplicitShort) ==
  IF k > Len(m) THEN <<>>
  ELSE (IF m[k].optionString = optionPrefixShort
        THEN <<OptionTuple(m[k].action, m[k].optionString,
                           Str(argExplicitShort))>>
        ELSE IF StartsWith(m[k].optionString, optionPrefix)
        THEN <<OptionTuple(m[k].action, m[k].optionString, JsNull)>>
        ELSE <<>>)
       \o SingleTuples(m, k + 1, optionPrefix, optionPrefixShort,
                       argExplicitShort)

\* optionString has at least two characters and starts with a prefix
\* character (the only way _parseOptional calls it)
getOptionTuples(p, optionString) ==
  IF optionString[2] \in p.prefixChars
  THEN \* split only at the '=': split('=', 1) keeps the first piece
       \* alone, so the explicit argument read from [1] is undefined
       IF Contains(optionString, "=")
       THEN DoubleTuples(optionStringActions(p), 1,
                         Split(optionString, "=")[1], Undefined)
       ELSE DoubleTuples(optionStringActions(p), 1, optionString, JsNull)
  ELSE SingleTuples(optionStringActions(p), 1, optionString,
                    Slice(optionString, 0, 2), Substr(optionString, 2))

NotOption       == [kind |-> "null",
                    tuple |-> OptionTuple(0, <<>>, JsNull)]
Resolved(tuple) == [kind |-> "tuple", tuple |-> tuple]
Ambiguous       == [kind |-> "AmbiguousOption",
                    tuple |-> OptionTuple(0, <<>>, JsNull)]

\* ArgumentParser.prototype._parseOptional
parseOptional(p, argString) ==
  IF argString = <<>> THEN NotOption
  ELSE IF argString[1] \notin p.prefixChars THEN NotOption
  ELSE IF LookupOption(p, argString) # 0
       THEN Resolved(OptionTuple(LookupOption(p, argString), argString,
                                 JsNull))
  ELSE IF Len(argString) = 1 THEN NotOption
  ELSE IF /\ Contains(argString, "=")
          /\ LookupOption(p, Split(argString, "=")[1]) # 0
       THEN LET argStringSplit == Split(argString, "=")
            IN  Resolved(OptionTuple(LookupOption(p, argStringSplit[1]),
                                     argStringSplit[1],
                                     Str(argStringSplit[2])))
  ELSE Let(getOptionTuples(p, argString), LAMBDA optionTuples :
         IF Len(optionTuples) > 1 THEN Ambiguous
         ELSE IF Len(optionTuples) = 1 THEN Resolved(optionTuples[1])
         ELSE IF /\ MatchesNegativeNumber(argString)
                 /\ ~hasNegativeNumberOptionals(p)
              THEN NotOption
         ELSE IF Contains(argString, " ") THEN NotOption
         ELSE Resolved(OptionTuple(0, argString, JsNull)))

\* ------------------------------------------------------------------------
\* Value conversion

DigitValue(c) ==
  CASE c = "0" -> 0 [] c = "1" -> 1 [] c = "2" -> 2 [] c = "3" -> 3
    [] c = "4" -> 4 [] c = "5" -> 5 [] c = "6" -> 6 [] c = "7" -> 7
    [] c = "8" -> 8 [] c = "9" -> 9 [] OTHER -> 0

RECURSIVE DigitsValue(_, _)
DigitsValue(s, acc) ==
  IF s = <<>> THEN acc
  ELSE DigitsValue(Tail(s), 10 * acc + DigitValue(s[1]))

\* parseInt(x, 10): optional sign, then the longest run of digits; NaN
\* (ok = FALSE) when there is no digit
parseInt(x) ==
  LET signed == x # <<>> /\ x[1] \in {"-", "+"}
      body   == IF signed THEN Tail(x) ELSE x
      run    == Run(body, 0, Digits)
      mag    == DigitsValue(Slice(body, 0, run), 0)
  IN  [ok |-> run > 0,
       n  |-> IF signed /\ x[1] = "-" THEN 0 - mag ELSE mag]

\* ArgumentParser.prototype._getValue with the type functions registered
\* by the constructor: 'auto' and null (identity), 'string', 'int'
getValue(action, argString) ==
  CASE action.type = "int" ->
         IF parseInt(argString).ok
         THEN [err |-> "none", value |-> Num(parseInt(argString).n)]
         ELSE [err |-> "TypeConversionError", value |-> Undefined]
    [] OTHER -> [err |-> "none", value |-> Str(argString)]

\* members every array has besides its indices
ArrayMembers ==
  { tLength,
    <<"p", "u", "s", "h">>, <<"p", "o", "p">>, <<"m", "a", "p">>,
    <<"j", "o", "i", "n">>, <<"s", "o", "r", "t">> }

\* String(value), as a property key
RECURSIVE NatKey(_)
NatKey(n) ==
  LET d == <<"0", "1", "2", "3", "4", "5", "6", "7", "8", "9">>
  IN  IF n < 10 THEN <<d[n + 1]>> ELSE NatKey(n \div 10) \o <<d[(n % 10) + 1]>>

ScalarKey(value) ==
  CASE value.t = "str" -> value.s
    [] value.t = "int" ->
         IF value.n < 0 THEN <<"-">> \o NatKey(0 - value.n)
         ELSE NatKey(value.n)
    [] value.t = "null" -> <<"n", "u", "l", "l">>
    [] OTHER -> <<value.t>>

\* array.join(',')
RECURSIVE JoinKeys(_)
JoinKeys(items) ==
  IF items = <<>> THEN <<>>
  ELSE IF Len(items) = 1 THEN ScalarKey(items[1])
  ELSE ScalarKey(items[1]) \o <<",">> \o JoinKeys(Tail(items))

PropertyKey(value) ==
  IF value.t = "list" THEN JoinKeys(value.items) ELSE ScalarKey(value)

\* !!choices[value] for an array of choices: an index holding a truthy
\* element, the length of a non-empty array, or an inherited member
ChoicesProperty(choices, value) ==
  LET key == PropertyKey(value)
  IN  \/ \E k \in 1..Len(choices) : key = NatKey(k - 1) /\ Truthy(choices[k])
      \/ key \in ArrayMembers /\ (key = tLength => Len(choices) > 0)

\* choices.indexOf(value) !== -1 (strict equality)
ChoicesIndexOf(choices, value) ==
  \E k \in 1..Len(choices) : choices[k] = value

\* ArgumentParser.prototype._checkValue
checkValue(action, value) ==
  IF /\ action.hasChoices
     /\ ~ChoicesProperty(action.choices, value)
     /\ ~ChoicesIndexOf(action.choices, value)
  THEN "InvalidChoice"
  ELSE "none"

\* ------------------------------------------------------------------------
\* ArgumentParser.prototype._getValues

\* argStrings.map(v => self._getValue(action, v)): the first failing
\* conversion throws
\* mutant of MapGetValue: only the first string is converted
MapGetValue_FirstOnly(action, argStrings) ==
  IF argStrings = <<>> THEN [err |-> "none", items |-> <<>>]
  ELSE Let(getValue(action, argStrings[1]), LAMBDA head :
         IF head.err # "none" THEN [err |-> head.err, items |-> <<>>]
         ELSE [err |-> "none", items |-> <<head.value>>])

RECURSIVE MapGetValue(_, _)
MapGetValue(action, argStrings) ==
  IF argStrings = <<>> THEN [err |-> "none", items |-> <<>>]
  ELSE Let(getValue(action, argStrings[1]), LAMBDA head :
         Let(MapGetValue(action, Tail(argStrings)), LAMBDA rest :
           IF head.err # "none" THEN [err |-> head.err, items |-> <<>>]
           ELSE IF rest.err # "none" THEN [err |-> rest.err, items |-> <<>>]
           ELSE [err |-> "none", items |-> <<head.value>> \o rest.items]))

\* value.forEach(v => self._checkValue(action, v))
RECURSIVE CheckEach(_, _)
CheckEach(action, items) ==
  IF items = <<>> THEN "none"
  ELSE IF checkValue(action, items[1]) # "none"
       THEN checkValue(action, items[1])
  ELSE CheckEach(action, Tail(items))

Converted(err, value) == [err |-> err, value |-> value]

\* convert one string and check it against the choices
ConvertAndCheck(action, argString) ==
  Let(getValue(action, argString), LAMBDA r :
    IF r.err # "none" THEN Converted(r.err, Undefined)
    ELSE Converted(checkValue(action, r.value), r.value))

\* mutant of getValues: without the branches for no argument and for a
\* single argument, every value is a list
getValues_ListAlways(action, rawArgStrings) ==
  LET m == MapGetValue(action, FilterNot(rawArgStrings, tSep))
  IN  IF m.err # "none" THEN Converted(m.err, Undefined)
      ELSE Converted(CheckEach(action, m.items), List(m.items))

getValues(action, rawArgStrings) ==
  Let(IF action.nargs # PARSER /\ action.nargs # REMAINDER
      THEN FilterNot(rawArgStrings, tSep)
      ELSE rawArgStrings, LAMBDA argStrings :
    IF Len(argStrings) = 0 /\ action.nargs = OPTIONAL
    THEN \* optional argument produces a default when not present
         Let(IF isOptional(action) THEN action.constant
             ELSE action.defaultValue, LAMBDA value :
           IF value.t = "str" THEN ConvertAndCheck(action, value.s)
           ELSE Converted("none", value))
    ELSE IF /\ Len(argStrings) = 0
            /\ action.nargs = ZERO_OR_MORE
            /\ isOptional(action)
    THEN Let(IF Truthy(action.defaultValue)
             THEN action.defaultValue ELSE List(<<>>), LAMBDA value :
           Converted(checkValue(action, value), value))
    ELSE IF /\ Len(argStrings) = 1
            /\ (NargsFalsy(action.nargs) \/ action.nargs = OPTIONAL)
    THEN ConvertAndCheck(action, argStrings[1])
    ELSE Let(MapGetValue(action, argStrings), LAMBDA m :
           IF m.err # "none" THEN Converted(m.err, Undefined)
           ELSE IF action.nargs = REMAINDER
           THEN Converted("none", List(m.items))
           ELSE IF action.nargs = PARSER
           THEN Converted(checkValue(action,
                            IF m.items = <<>> THEN Undefined
                            ELSE m.items[1]),
                          List(m.items))
           ELSE Converted(CheckEach(action, m.items), List(m.items))))

\* ------------------------------------------------------------------------
\* The state _parseKnownArgs carries through the parse, as one record:
\*   namespace, extras, seenActions, seenNonDefaultActions, positionals
\*   (indices of the Actions still queued), err ("none" until something
\*   throws), ret (the index the last consume* call returned) and events,
\*   the history of Action calls: which Action was called with which
\*   argument strings, taken from which argStrings index (from = NaN when
\*   the strings are not a slice of argStrings), for the option token at
\*   which index (at = NaN for a positional), under which option string.

\* the number NaN; every index the parser computes is >= -1
NaN == 0 - 7

\* a + b on numbers
Plus(a, b) == IF a = NaN \/ b = NaN THEN NaN ELSE a + b

\* ToInteger for an argument of slice / substr
ToInteger(a) == IF a = NaN THEN 0 ELSE a

\* a > b, a <= b on numbers (false when either is NaN)
Greater(a, b) == a # NaN /\ b # NaN /\ a > b
LessEq(a, b)  == a # NaN /\ b # NaN /\ a <= b

Event(action, args, from, at, optionString) ==
  [action |-> action, args |-> args, from |-> from, at |-> at,
   optionString |-> optionString]

\* action.call(parser, namespace, values, optionString) for the Action
\* classes of lib/action/store.js and lib/action/store/constant.js
Call(action, namespace, values, optionString) ==
  IF action.call = "storeConst"
  THEN [namespace EXCEPT ![action.dest] = action.constant]
  ELSE [namespace EXCEPT ![action.dest] = values]

\* takeAction(action, argumentStrings, optionString); a is the index of
\* the Action in p.actions.  actionConflicts is always empty, so the
\* conflict loop never throws.
takeAction(p, st, a, argumentStrings, from, at, optionString) ==
  LET action == p.actions[a]
      seen == [st EXCEPT !.seenActions = Append(@, a)]
  IN  IF st.err # "none" THEN st
      ELSE Let(getValues(action, argumentStrings), LAMBDA r :
             IF r.err # "none" THEN [seen EXCEPT !.err = r.err]
             ELSE [seen EXCEPT
                     !.seenNonDefaultActions =
                        IF r.value # Undefined THEN Append(@, a) ELSE @,
                     !.namespace =
                        IF r.value # SUPPRESS
                        THEN Call(action, @, r.value, optionString) ELSE @,
                     !.events =
                        IF r.value # SUPPRESS
                        THEN Append(@, Event(a, argumentStrings, from, at,
                                             optionString))
                        ELSE @])

\* mutant of TakeAll: only the last tuple of the cluster is taken
TakeAll_OnlyLast(p, st, actionTuples) ==
  IF actionTuples = <<>> \/ st.err # "none" THEN st
  ELSE LET last == actionTuples[Len(actionTuples)]
       IN  takeAction(p, st, last.action, last.args, last.from, last.at,
                      last.optionString)

\* for (i ...) takeAction.apply(self, actionTuples[i])
RECURSIVE TakeAll(_, _, _)
TakeAll(p, st, actionTuples) ==
  IF actionTuples = <<>> \/ st.err # "none" THEN st
  ELSE TakeAll(p,
               takeAction(p, st, actionTuples[1].action,
                          actionTuples[1].args, actionTuples[1].from,
                          actionTuples[1].at, actionTuples[1].optionString),
               Tail(actionTuples))

\* ------------------------------------------------------------------------
\* consumeOptional(startIndex)

\* the while (true) loop: what it ends with
\*   kind "extras": the option is unknown (action 0)
\*   kind "break":  actionTuples and stop are set
\*   any other kind: the error thrown
OptionalOutcome(kind, actionTuples, stop) ==
  [kind |-> kind, actionTuples |-> actionTuples, stop |-> stop]

RECURSIVE OptionalLoop(_, _, _, _, _, _, _, _)
OptionalLoop(p, argStrings, argStringsPattern, startIndex, action, optionString, explicitArg, actionTuples) ==
  IF action = 0 THEN OptionalOutcome("extras", <<>>, startIndex + 1)
  ELSE IF Truthy(explicitArg)
  THEN Let(matchArgument(p.actions[action], <<"A">>), LAMBDA m :
         IF m.err # "none" THEN OptionalOutcome(m.err, <<>>, 0)
         ELSE IF m.count = 0 /\ optionString[2] \notin p.prefixChars
         THEN \* a single-dash option that takes no argument: read the
              \* next character of the explicit argument as an option
              LET nextOption == <<optionString[1], explicitArg.s[1]>>
                  rest == Substr(explicitArg.s, 1)
                  newExplicitArg == IF rest = <<>> THEN JsNull
                                    ELSE Str(rest)
              IN  Let(LookupOption(p, nextOption), LAMBDA next :
                    IF next # 0
                    THEN OptionalLoop(p, argStrings, argStringsPattern,
                           startIndex, next, nextOption, newExplicitArg,
                           Append(actionTuples,
                                  Event(action, <<>>, NaN, startIndex,
                                        optionString)))
                    ELSE OptionalOutcome("InvalidExplicitArgument", <<>>, 0))
         ELSE IF m.count = 1
         THEN OptionalOutcome("break",
                Append(actionTuples,
                       Event(action, <<explicitArg.s>>, NaN, startIndex,
                             optionString)),
                startIndex + 1)
         ELSE OptionalOutcome("InvalidExplicitArgument", <<>>, 0))
  ELSE LET start == startIndex + 1
           selectedPatterns == Substr(argStringsPattern, start)
       IN  Let(matchArgument(p.actions[action], selectedPatterns), LAMBDA m :
             IF m.err # "none" THEN OptionalOutcome(m.err, <<>>, 0)
             ELSE OptionalOutcome("break",
                    Append(actionTuples,
                           Event(action,
                                 Slice(argStrings, start, start + m.count),
                                 start, startIndex, optionString)),
                    start + m.count))

\* mutant of consumeOptional: an unknown option returns startIndex, not
\* startIndex + 1
consumeOptional_NoAdvance(p, st, argStrings, argStringsPattern, optionStringIndices, startIndex) ==
  LET optionTuple == optionStringIndices[startIndex]
  IN  Let(OptionalLoop(p, argStrings, argStringsPattern, startIndex,
                       optionTuple.action, optionTuple.optionString,
                       optionTuple.explicitArg, <<>>), LAMBDA out :
        IF out.kind = "extras"
        THEN [st EXCEPT !.extras = Append(@, argStrings[startIndex + 1]),
                        !.ret = startIndex]
        ELSE IF out.kind # "break" THEN [st EXCEPT !.err = out.kind]
        ELSE [TakeAll(p, st, out.actionTuples) EXCEPT !.ret = out.stop])

consumeOptional(p, st, argStrings, argStringsPattern, optionStringIndices, startIndex) ==
  LET optionTuple == optionStringIndices[startIndex]
  IN  Let(OptionalLoop(p, argStrings, argStringsPattern, startIndex,
                       optionTuple.action, optionTuple.optionString,
                       optionTuple.explicitArg, <<>>), LAMBDA out :
        IF out.kind = "extras"
        THEN [st EXCEPT !.extras = Append(@, argStrings[startIndex + 1]),
                        !.ret = out.stop]
        ELSE IF out.kind # "break" THEN [st EXCEPT !.err = out.kind]
        ELSE [TakeAll(p, st, out.actionTuples) EXCEPT !.ret = out.stop])

\* ------------------------------------------------------------------------
\* consumePositionals(startIndex)

\* _.zip(positionals, argCounts).forEach(...): zip pads the shorter list,
\* so a queued positional beyond the matched ones comes with an undefined
\* count: its slice is empty and startIndex turns into NaN
RECURSIVE ZipTake(_, _, _, _, _, _)
ZipTake(p, st, argStrings, argCounts, k, startIndex) ==
  IF k > Max(Len(st.positionals), Len(argCounts)) \/ st.err # "none"
  THEN [st EXCEPT !.ret = startIndex]
  ELSE LET argCount == IF k <= Len(argCounts) THEN argCounts[k] ELSE NaN
           args == Slice(argStrings, ToInteger(startIndex),
                         ToInteger(Plus(startIndex, argCount)))
       IN  ZipTake(p,
                   takeAction(p, st, st.positionals[k], args, startIndex,
                              NaN, <<>>),
                   argStrings, argCounts, k + 1, Plus(startIndex, argCount))

RECURSIVE ActionsOf(_, _)
ActionsOf(p, indices) ==
  IF indices = <<>> THEN <<>>
  ELSE <<p.actions[indices[1]]>> \o ActionsOf(p, Tail(indices))

consumePositionals(p, st, argStrings, argStringsPattern, startIndex) ==
  LET selectedPattern == Substr(argStringsPattern, ToInteger(startIndex))
  IN  Let(matchArgumentsPartial(ActionsOf(p, st.positionals),
                                selectedPattern), LAMBDA argCounts :
        Let(IF Len(argCounts) > 0
            THEN ZipTake(p, st, argStrings, argCounts, 1, startIndex)
            ELSE [st EXCEPT !.ret = startIndex], LAMBDA taken :
          IF taken.err # "none" THEN taken
          ELSE [taken EXCEPT
                  !.positionals = SubSeq(@, Len(argCounts) + 1, Len(@))]))

\* ------------------------------------------------------------------------
\* Token classifier: the callback of argStrings.forEach for the token at
\* (0-based) index i.  A '--' pushes '-' and then one 'A' for itself and
\* for every token behind it; forEach goes on to the next token all the
\* same, so the tokens behind a '--' are classified a second time.

RepeatChar(c, n) == [k \in 1..n |-> c]

Classified(kind, pattern, indices) ==
  [kind |-> kind, pattern |-> pattern, indices |-> indices]

classifyToken(p, argStrings, i, patternParts, indices) ==
  IF argStrings[i + 1] = tSep
  THEN Classified("ok",
         patternParts \o <<"-">> \o RepeatChar("A", Len(argStrings) - i),
         indices)
  ELSE Let(parseOptional(p, argStrings[i + 1]), LAMBDA optionTuple :
         IF optionTuple.kind = "AmbiguousOption"
         THEN Classified("AmbiguousOption", patternParts, indices)
         ELSE IF optionTuple.kind = "null"
         THEN Classified("ok", Append(patternParts, "A"), indices)
         ELSE Classified("ok", Append(patternParts, "O"),
                         (i :> optionTuple.tuple) @@ indices))

\* ------------------------------------------------------------------------
\* parseKnownArgs: seeding of the namespace

\* _.indexOf(namespace, dest): underscore walks the indices 0..length-1 of
\* its first argument; a namespace object has no length, so nothing is
\* ever found
NamespaceIndexOf(namespace, dest) == 0 - 1

Seeded(err, namespace) == [err |-> err, namespace |-> namespace]

RECURSIVE SeedActions(_, _, _)
SeedActions(p, namespace, i) ==
  IF i > Len(p.actions) THEN Seeded("none", namespace)
  ELSE LET action == p.actions[i]
       IN  IF /\ Str(<<action.dest>>) # SUPPRESS
              /\ NamespaceIndexOf(namespace, action.dest) = 0 - 1
              /\ action.defaultValue # SUPPRESS
           THEN IF action.defaultValue.t = "str"
                THEN Let(getValue(action, action.defaultValue.s), LAMBDA r :
                       IF r.err # "none" THEN Seeded(r.err, namespace)
                       ELSE SeedActions(p,
                              [namespace EXCEPT ![action.dest] = r.value],
                              i + 1))
                ELSE SeedActions(p,
                       [namespace EXCEPT ![action.dest] = action.defaultValue],
                       i + 1)
           ELSE SeedActions(p, namespace, i + 1)

\* _.keys(self._defaults).forEach(dest => namespace[dest] = ...)
SeedParserDefaults(p, namespace) ==
  [d \in DOMAIN namespace |->
     IF d \in DOMAIN p.defaults THEN p.defaults[d] ELSE namespace[d]]

\* every key the namespace of a run can hold
Dests(p) == {p.actions[i].dest : i \in 1..Len(p.actions)}
Keys(p, seed) == Dests(p) \cup DOMAIN p.defaults \cup DOMAIN seed

\* the namespace object the caller passes in (a new Namespace when the
\* seed is empty); a key it does not hold reads as undefined
CallerNamespace(p, seed) ==
  [d \in Keys(p, seed) |-> IF d \in DOMAIN seed THEN seed[d] ELSE Undefined]

\* ------------------------------------------------------------------------
\* One pass of the while loop of _parseKnownArgs, and the code after it

\* the smallest option index >= startIndex
NextOptionStringIndex(indices, startIndex) ==
  CHOOSE i \in DOMAIN indices :
    /\ i >= startIndex
    /\ \A j \in DOMAIN indices : j >= startIndex => i <= j

\* Math.max over the option indices, from -1
MaxOptionStringIndex(indices) ==
  IF DOMAIN indices = {} THEN 0 - 1
  ELSE CHOOSE i \in DOMAIN indices : \A j \in DOMAIN indices : j <= i

\* st.ret carries startIndex in and out
loopPass(p, st, argStrings, argStringsPattern, indices) ==
  LET startIndex == st.ret
      nextOptionStringIndex == NextOptionStringIndex(indices, startIndex)
  IN  Let(IF startIndex # nextOptionStringIndex
          THEN consumePositionals(p, st, argStrings, argStringsPattern,
                                  startIndex)
          ELSE st, LAMBDA s1 :
        IF s1.err # "none" THEN s1
        ELSE IF /\ startIndex # nextOptionStringIndex
                /\ Greater(s1.ret, startIndex)
        THEN s1   \* continue
        ELSE \* extra arguments in front of the option
             Let(IF s1.ret \notin DOMAIN indices
                 THEN [s1 EXCEPT
                         !.extras = @ \o Slice(argStrings, ToInteger(s1.ret),
                                               nextOptionStringIndex),
                         !.ret = nextOptionStringIndex]
                 ELSE s1, LAMBDA s2 :
               consumeOptional(p, s2, argStrings, argStringsPattern, indices,
                               s2.ret)))

\* the first required Action that was never seen, 0 when there is none
RECURSIVE MissingRequired(_, _, _)
MissingRequired(p, seenActions, i) ==
  IF i > Len(p.actions) THEN 0
  ELSE IF /\ p.actions[i].required
          /\ \A k \in 1..Len(seenActions) : seenActions[k] # i
       THEN i
  ELSE MissingRequired(p, seenActions, i + 1)

\* mutant of tailPass: the queue of positionals is not looked at
tailPass_NoTooFew(p, st, argStrings, argStringsPattern) ==
  Let(consumePositionals(p, st, argStrings, argStringsPattern, st.ret),
      LAMBDA s1 :
    LET s2 == [s1 EXCEPT !.extras = @ \o Substr(argStrings, ToInteger(s1.ret))]
    IN  IF s1.err # "none" THEN s1
        ELSE IF MissingRequired(p, s2.seenActions, 1) # 0
        THEN [s2 EXCEPT !.err = "MissingRequiredArgument"]
        ELSE s2)

tailPass(p, st, argStrings, argStringsPattern) ==
  Let(consumePositionals(p, st, argStrings, argStringsPattern, st.ret),
      LAMBDA s1 :
    LET s2 == [s1 EXCEPT !.extras = @ \o Substr(argStrings, ToInteger(s1.ret))]
    IN  IF s1.err # "none" THEN s1
        ELSE IF Len(s2.positionals) > 0
        THEN [s2 EXCEPT !.err = "TooFewArguments"]
        ELSE IF MissingRequired(p, s2.seenActions, 1) # 0
        THEN [s2 EXCEPT !.err = "MissingRequiredArgument"]
        ELSE s2)

\* ------------------------------------------------------------------------
\* The parser as a state machine

VARIABLES
  parser,                \* the ArgumentParser: Actions, defaults, prefixChars
  argStrings,            \* args
  given,                 \* the namespace argument as the caller passed it
  pc,                    \* where the call is
  namespace,             \* the result object
  argStringIndex,        \* forEach index of the classifier
  argStringsPattern,     \* argStringPatternParts, joined
  optionStringIndices,   \* index -> option tuple
  maxOptionStringIndex,
  startIndex,
  positionals,           \* indices of the positional Actions still queued
  extras,
  seenActions,
  seenNonDefaultActions,
  events,                \* history of the Action calls
  error,                 \* what the parser failed with, "none" otherwise
  iterations             \* history: passes of the while loop so far

vars == <<parser, argStrings, given, pc, namespace, argStringIndex,
          argStringsPattern, optionStringIndices, maxOptionStringIndex,
          startIndex, positionals, extras, seenActions,
          seenNonDefaultActions, events, error, iterations>>

\* all argument lists of at most n tokens of the set tokens
ArgLists(tokens, n) == UNION {[1..k -> tokens] : k \in 0..n}

NoIndices == [i \in {} |-> OptionTuple(0, <<>>, JsNull)]

Init ==
  /\ parser \in Parsers
  /\ argStrings \in ArgLists(parser.tokens, MaxArgs)
  /\ \E seed \in parser.seeds : given = CallerNamespace(parser, seed)
  /\ namespace = given
  /\ pc = "start"
  /\ argStringIndex = 0
  /\ argStringsPattern = <<>>
  /\ optionStringIndices = NoIndices
  /\ maxOptionStringIndex = 0 - 1
  /\ startIndex = 0
  /\ positionals = <<>>
  /\ extras = <<>>
  /\ seenActions = <<>>
  /\ seenNonDefaultActions = <<>>
  /\ events = <<>>
  /\ error = "none"
  /\ iterations = 0

\* the parse state as the record the operators above work on
Current ==
  [namespace |-> namespace, extras |-> extras, seenActions |-> seenActions,
   seenNonDefaultActions |-> seenNonDefaultActions,
   positionals |-> positionals, events |-> events, err |-> "none",
   ret |-> startIndex]

\* write the record back; a thrown error ends the call (this.error exits
\* or, in debug mode, throws)
Become(st, nextPc) ==
  /\ namespace' = st.namespace
  /\ extras' = st.extras
  /\ seenActions' = st.seenActions
  /\ seenNonDefaultActions' = st.seenNonDefaultActions
  /\ positionals' = st.positionals
  /\ events' = st.events
  /\ startIndex' = st.ret
  /\ error' = st.err
  /\ pc' = IF st.err # "none" THEN "error" ELSE nextPc

\* parseKnownArgs, up to the call of _parseKnownArgs
ParseKnownArgs ==
  /\ pc = "start"
  /\ \E seeded \in {SeedActions(parser, namespace, 1)} :
         /\ namespace' = IF seeded.err # "none" THEN seeded.namespace
                         ELSE SeedParserDefaults(parser, seeded.namespace)
         /\ error' = seeded.err
         /\ pc' = IF seeded.err # "none" THEN "error" ELSE "classify"
  /\ UNCHANGED <<parser, argStrings, given, iterations, argStringIndex, argStringsPattern,
                 optionStringIndices, maxOptionStringIndex, startIndex,
                 positionals, extras, seenActions, seenNonDefaultActions,
                 events>>

\* one call of the forEach callback of the classifier
ClassifyToken ==
  /\ pc = "classify"
  /\ argStringIndex < Len(argStrings)
  /\ \E c \in {classifyToken(parser, argStrings, argStringIndex,
                             argStringsPattern, optionStringIndices)} :
         /\ argStringsPattern' = c.pattern
         /\ optionStringIndices' = c.indices
         /\ error' = IF c.kind = "ok" THEN "none" ELSE c.kind
         /\ pc' = IF c.kind = "ok" THEN "classify" ELSE "error"
  /\ argStringIndex' = argStringIndex + 1
  /\ UNCHANGED <<parser, argStrings, given, iterations, namespace, maxOptionStringIndex,
                 startIndex, positionals, extras, seenActions,
                 seenNonDefaultActions, events>>

\* after forEach: join the pattern, queue the positionals, find the last
\* option index
StartLoop ==
  /\ pc = "classify"
  /\ argStringIndex = Len(argStrings)
  /\ positionals' = getPositionalActions(parser)
  /\ maxOptionStringIndex' = MaxOptionStringIndex(optionStringIndices)
  /\ startIndex' = 0
  /\ pc' = "loop"
  /\ UNCHANGED <<parser, argStrings, given, iterations, namespace, argStringIndex,
                 argStringsPattern, optionStringIndices, extras, seenActions,
                 seenNonDefaultActions, events, error>>

\* one pass of while (startIndex <= maxOptionStringIndex)
LoopPass ==
  /\ pc = "loop"
  /\ LessEq(startIndex, maxOptionStringIndex)
  /\ \E st \in {loopPass(parser, Current, argStrings, argStringsPattern,
                          optionStringIndices)} : Become(st, "loop")
  /\ iterations' = iterations + 1
  /\ UNCHANGED <<parser, argStrings, given, argStringIndex, argStringsPattern,
                 optionStringIndices, maxOptionStringIndex>>

\* the code behind the loop: trailing positionals, extras, too few
\* arguments, required Actions
TailPass ==
  /\ pc = "loop"
  /\ ~LessEq(startIndex, maxOptionStringIndex)
  /\ \E st \in {tailPass(parser, Current, argStrings, argStringsPattern)} :
         Become(st, "parsed")
  /\ UNCHANGED <<parser, argStrings, given, iterations, argStringIndex, argStringsPattern,
                 optionStringIndices, maxOptionStringIndex>>

\* parseKnownArgs returns [namespace, args]
ParseKnownArgsReturn ==
  /\ pc = "parsed"
  /\ pc' = "known"
  /\ UNCHANGED <<parser, argStrings, given, iterations, namespace, argStringIndex,
                 argStringsPattern, optionStringIndices, maxOptionStringIndex,
                 startIndex, positionals, extras, seenActions,
                 seenNonDefaultActions, events, error>>

\* parseArgs: the check on what parseKnownArgs returned
ParseArgs ==
  /\ pc = "known"
  /\ IF Len(extras) > 0
     THEN error' = "UnrecognizedArguments" /\ pc' = "error"
     ELSE error' = error /\ pc' = "done"
  /\ UNCHANGED <<parser, argStrings, given, iterations, namespace, argStringIndex,
                 argStringsPattern, optionStringIndices, maxOptionStringIndex,
                 startIndex, positionals, extras, seenActions,
                 seenNonDefaultActions, events>>

Next ==
  \/ ParseKnownArgs
  \/ ClassifyToken
  \/ StartLoop
  \/ LoopPass
  \/ TailPass
  \/ ParseKnownArgsReturn
  \/ ParseArgs

Spec == Init /\ [][Next]_vars

\* nothing is left to run: parseArgs has returned or something was thrown
Terminated == pc \in {"done", "error"}

\* the call runs on one thread to its end: a step that can be taken is
\* taken.  This is WF_vars(Next) with ENABLED <<Next>>_vars written as
\* ~Terminated: every action changes pc, argStringIndex or iterations,
\* and one of them can be taken at every pc but "done" and "error".
LiveSpec == Spec /\ ([]<>Terminated \/ []<><<Next>>_vars)

\* ------------------------------------------------------------------------
\* The whole call parseKnownArgs(argStrings, callerNamespace) as one
\* function: the steps above, composed.  Its value is the parse state at
\* the return (err = "none") or at the throw.

RECURSIVE ClassifyFrom(_, _, _, _, _)
ClassifyFrom(p, args, i, patternParts, indices) ==
  IF i >= Len(args) THEN Classified("ok", patternParts, indices)
  ELSE LET c == classifyToken(p, args, i, patternParts, indices)
       IN  IF c.kind # "ok" THEN c
           ELSE ClassifyFrom(p, args, i + 1, c.pattern, c.indices)

RECURSIVE LoopFrom(_, _, _, _, _)
LoopFrom(p, st, args, pattern, indices) ==
  IF st.err # "none" THEN st
  ELSE IF LessEq(st.ret, MaxOptionStringIndex(indices))
  THEN LoopFrom(p, loopPass(p, st, args, pattern, indices), args, pattern,
                indices)
  ELSE tailPass(p, st, args, pattern)

parseKnownArgs(p, args, callerNamespace) ==
  LET seeded == SeedActions(p, callerNamespace, 1)
      c == ClassifyFrom(p, args, 0, <<>>, NoIndices)
      st == [namespace |-> SeedParserDefaults(p, seeded.namespace),
             extras |-> <<>>, seenActions |-> <<>>,
             seenNonDefaultActions |-> <<>>,
             positionals |-> getPositionalActions(p), events |-> <<>>,
             err |-> "none", ret |-> 0]
  IN  IF seeded.err # "none"
      THEN [st EXCEPT !.err = seeded.err, !.namespace = seeded.namespace,
                      !.positionals = <<>>]
      ELSE IF c.kind # "ok" THEN [st EXCEPT !.err = c.kind,
                                            !.positionals = <<>>]
      ELSE LoopFrom(p, st, args, c.pattern, c.indices)

\* ------------------------------------------------------------------------
\* Properties

Range(s) == {s[k] : k \in 1..Len(s)}

\* parseKnownArgs has returned [namespace, extras]
Returned == pc = "known"

\* the call has failed with the error kind
Failed(kind) == pc = "error" /\ error = kind

\* the call is over: parseKnownArgs has returned or something was thrown
Over == pc \in {"known", "done", "error"}

\* a token that is an argument: not option-shaped for this parser and not
\* the separator
ArgumentLike(p, token) ==
  token # tSep /\ parseOptional(p, token).kind = "null"

\* the namespace as parseKnownArgs seeds it before matching begins
PreSeeded ==
  SeedParserDefaults(parser, SeedActions(parser, given, 1).namespace)

\* no Action other than a is required, and the parser has no positionals
OnlyOptionals(p, a) ==
  /\ getPositionalActions(p) = <<>>
  /\ \A b \in 1..Len(p.actions) : p.actions[b].required => b = a

\* every Action other than a can be absent from the input: it is not
\* required, and a positional matches no token
OthersCanBeAbsent(p, a) ==
  \A b \in 1..Len(p.actions) :
    b # a =>
      /\ ~p.actions[b].required
      /\ isPositional(p.actions[b]) =>
           p.actions[b].nargs \in {OPTIONAL, ZERO_OR_MORE}

\* a '--' stands in front of the (1-based) position i
SeparatorBefore(i) == \E k \in 1..(i - 1) : argStrings[k] = tSep

\* the two-token input [option string of a, X] to an optional Action a of
\* the default arity
OptionThenToken(a) ==
  /\ isOptional(parser.actions[a])
  /\ parser.actions[a].nargs = NARGS_NULL
  /\ Len(argStrings) = 2
  /\ argStrings[1] \in Range(parser.actions[a].optionStrings)

\* C1 as claimed: for every optional Action of the default arity and every
\* token X, parsing [--name, X] succeeds with result[dest] = convert(X) and
\* X is not in extras.
C1_AsClaimed ==
  \A a \in 1..Len(parser.actions) :
    (OptionThenToken(a) /\ Over) =>
      /\ pc # "error"
      /\ namespace[parser.actions[a].dest]
           = getValue(parser.actions[a], argStrings[2]).value
      /\ argStrings[2] \notin Range(extras)

\* C1 amended: the same for every token X that is an argument (neither
\* option-shaped nor '--') and that the converter and the choice set of
\* the Action accept, in a parser whose other Actions can all be absent
\* (none required, every positional ZeroOrOne or ZeroOrMore): the parse
\* succeeds, result[dest] = convert(X), and nothing is left in extras.
C1_OptionTakesOneArgument ==
  \A a \in 1..Len(parser.actions) :
    LET action == parser.actions[a]
        X == argStrings[2]
    IN  ( /\ OptionThenToken(a)
          /\ OthersCanBeAbsent(parser, a)
          /\ ArgumentLike(parser, X)
          /\ getValue(action, X).err = "none"
          /\ checkValue(action, getValue(action, X).value) = "none"
          /\ Over ) =>
          /\ pc # "error"
          /\ namespace[action.dest] =
               (IF action.type = "int" THEN Num(parseInt(X).n) ELSE Str(X))
          /\ extras = <<>>

\* [--num, -5] has returned with num = -5
C1_Witness ==
  /\ Returned
  /\ parser.actions = StoreActions
  /\ argStrings = <<tNum, tNeg5>>
  /\ namespace["num"] = Num(0 - 5)
  /\ extras = <<>>

\* declared option strings that start with the token P
StartingWith(p, P) ==
  {k \in 1..Len(optionStringActions(p)) :
     StartsWith(optionStringActions(p)[k].optionString, P)}

\* C2 as claimed: for any token P, if exactly one declared option string
\* starts with P then P resolves to that option's Action, and if two or
\* more do then parsing an input that contains P fails with
\* AmbiguousOption.  (Stated for the tokens other than the separator.)
C2_AsClaimed ==
  \A i \in 1..Len(argStrings) :
    LET P == argStrings[i]
        starting == StartingWith(parser, P)
    IN  (pc \notin {"start", "classify"} /\ P # tSep) =>
          /\ Cardinality(starting) = 1 =>
               \/ Failed("AmbiguousOption")
               \/ /\ (i - 1) \in DOMAIN optionStringIndices
                  /\ \A k \in starting :
                       optionStringIndices[i - 1].action
                         = optionStringActions(parser)[k].action
          /\ Cardinality(starting) >= 2 => Failed("AmbiguousOption")

\* the declared option strings the resolver takes for candidates of P:
\* those that start with P and, when the second character of P is not a
\* prefix character, the one that is the first two characters of P
Candidates(p, P) ==
  StartingWith(p, P) \cup
  {k \in 1..Len(optionStringActions(p)) :
     /\ P[2] \notin p.prefixChars
     /\ optionStringActions(p)[k].optionString = SubSeq(P, 1, 2)}

\* tokens for which the resolver searches the prefixes: two characters or
\* more, the first a prefix character, not '--', not a declared option
\* string, no '='
Abbreviable(p, P) ==
  /\ Len(P) >= 2
  /\ P[1] \in p.prefixChars
  /\ P # tSep
  /\ LookupOption(p, P) = 0
  /\ ~Contains(P, "=")

\* C2 amended: for a token P of two or more characters that starts with a
\* prefix character, is not '--', is not itself a declared option string,
\* holds no '=' and has no '--' in front of it: with exactly one candidate
\* P resolves to the candidate's Action; with two or more candidates the
\* parse fails with AmbiguousOption.
C2_Abbreviation ==
  \A i \in 1..Len(argStrings) :
    LET P == argStrings[i]
        candidates == Candidates(parser, P)
    IN  ( /\ Abbreviable(parser, P)
          /\ ~SeparatorBefore(i)
          /\ argStringIndex >= i ) =>
          /\ Cardinality(candidates) = 1 =>
               /\ (i - 1) \in DOMAIN optionStringIndices
               /\ \A k \in candidates :
                    optionStringIndices[i - 1].action
                      = optionStringActions(parser)[k].action
          /\ Cardinality(candidates) >= 2 => Failed("AmbiguousOption")

\* the abbreviation --na has resolved to --name, and --n was ambiguous
C2_Witness ==
  /\ parser.actions = StoreActions
  /\ argStrings = <<tNa, tX, tN>>
  /\ Failed("AmbiguousOption")
  /\ 0 \in DOMAIN optionStringIndices
  /\ optionStringIndices[0].action = 1

\* what was fired, in order: Action, option string, argument strings
Fired(ev) ==
  [k \in 1..Len(ev) |-> <<ev[k].action, ev[k].optionString, ev[k].args>>]

\* -a, -b and -c are declared, each taking no argument
ThreeFlags(p) ==
  \A t \in {tA, tB, tC} :
    LookupOption(p, t) # 0 /\ p.actions[LookupOption(p, t)].nargs = "0"

\* C3: with the zero-arity flags -a, -b, -c declared, parsing [-abc] gives
\* the namespace, the fired Actions in their order and the (empty) extras
\* that parsing [-a, -b, -c] gives.
C3_Clustering ==
  (ThreeFlags(parser) /\ argStrings = <<tAbc>> /\ Over) =>
    LET r == parseKnownArgs(parser, <<tA, tB, tC>>, given)
    IN  /\ pc # "error"
        /\ r.err = "none"
        /\ namespace = r.namespace
        /\ Fired(events) = Fired(r.events)
        /\ extras = r.extras
        /\ extras = <<>>

\* [-abc] has returned with the three flags fired
C3_Witness ==
  /\ Returned
  /\ argStrings = <<tAbc>>
  /\ Len(events) = 3
  /\ \A d \in {"a", "b", "c"} : namespace[d] = JsTrue

\* C4 as claimed (in what the caller can observe): no token behind a '--'
\* fires an optional Action, and [--, --foo] against one ZeroOrMore
\* positional gives [--foo].
C4_AsClaimed ==
  /\ \A i \in 1..Len(argStrings) : \A j \in 1..Len(argStrings) :
       (i < j /\ argStrings[i] = tSep) =>
         \A k \in 1..Len(events) : events[k].at # j - 1
  /\ (parser.actions = StarActions /\ argStrings = <<tSep, tFoo>> /\ Over) =>
       /\ pc # "error"
       /\ namespace["files"] = List(<<Str(tFoo)>>)

\* every Action is an option or a positional that matches no token
AllCanBeAbsent(p) ==
  \A a \in 1..Len(p.actions) :
    \/ isOptional(p.actions[a]) /\ ~p.actions[a].required
    \/ p.actions[a].nargs \in {OPTIONAL, ZERO_OR_MORE}

\* C5 as claimed: with only such Actions, parsing [] returns the namespace
\* as it was seeded from the defaults, and no extras.
C5_AsClaimed ==
  (argStrings = <<>> /\ AllCanBeAbsent(parser) /\ Over) =>
    /\ pc # "error"
    /\ namespace = PreSeeded
    /\ extras = <<>>

\* the value of n strings under an identity converter
StrList(tokens) == List([k \in 1..Len(tokens) |-> Str(tokens[k])])

\* Actions that take a fixed number of strings
IsFixed(action) == action.nargs \in {NARGS_NULL, "1", "2", "3"}
FixedCount(action) ==
  IF action.nargs = NARGS_NULL THEN 1 ELSE NargsNumber(action.nargs)

\* number of strings of the first k queued positionals
RECURSIVE CountBefore(_, _, _)
CountBefore(p, q, k) ==
  IF k = 0 THEN 0
  ELSE CountBefore(p, q, k - 1) + FixedCount(p.actions[q[k]])

\* C6: an Action with arity Exactly(n), n >= 1, and the identity
\* converter, given n argument tokens, stores exactly these n tokens as a
\* list in input order: an option followed by its n tokens, and the
\* positionals of a parser given exactly the tokens they take.
C6_RoundTrip ==
  /\ \A a \in 1..Len(parser.actions) :
       LET action == parser.actions[a]
       IN  ( /\ isOptional(action)
             /\ action.nargs \in {"1", "2", "3"}
             /\ action.type = "null"
             /\ ~action.hasChoices
             /\ OnlyOptionals(parser, a)
             /\ Len(argStrings) = 1 + NargsNumber(action.nargs)
             /\ argStrings[1] \in Range(action.optionStrings)
             /\ \A k \in 2..Len(argStrings) :
                  ArgumentLike(parser, argStrings[k])
             /\ Over ) =>
             /\ pc # "error"
             /\ namespace[action.dest] = StrList(Tail(argStrings))
             /\ extras = <<>>
  /\ LET q == getPositionalActions(parser)
     IN  ( /\ q # <<>>
           /\ \A k \in 1..Len(q) :
                /\ IsFixed(parser.actions[q[k]])
                /\ parser.actions[q[k]].type = "null"
                /\ ~parser.actions[q[k]].hasChoices
           /\ \A b \in 1..Len(parser.actions) :
                parser.actions[b].required => isPositional(parser.actions[b])
           /\ Len(argStrings) = CountBefore(parser, q, Len(q))
           /\ \A k \in 1..Len(argStrings) :
                ArgumentLike(parser, argStrings[k])
           /\ Over ) =>
           /\ pc # "error"
           /\ extras = <<>>
           /\ \A k \in 1..Len(q) :
                parser.actions[q[k]].nargs # NARGS_NULL =>
                  namespace[parser.actions[q[k]].dest] =
                    StrList(Slice(argStrings, CountBefore(parser, q, k - 1),
                                  CountBefore(parser, q, k)))

\* [--pair, x, y] has returned with pair = [x, y]
C6_Witness ==
  /\ Returned
  /\ parser.actions = ChoiceActions
  /\ argStrings = <<tPair, tX, tY>>
  /\ namespace["pair"] = List(<<Str(tX), Str(tY)>>)

\* [x, y, x] has returned with the positional dst = [y, x]
C6_WitnessPositional ==
  /\ Returned
  /\ parser.actions = MixedActions
  /\ argStrings = <<tX, tY, tX>>
  /\ namespace["dst"] = List(<<Str(tY), Str(tX)>>)

\* the scan of _parseKnownArgs has come to its end: the call returned, or
\* failed in the checks behind the last positional pass
ScanEnded ==
  \/ pc \in {"parsed", "known", "done"}
  \/ pc = "error" /\ error \in {"TooFewArguments", "MissingRequiredArgument",
                                "UnrecognizedArguments"}

\* C7: when the scan ends with a positional still queued the parse fails
\* with TooFewArguments; with one required positional `name`, [] fails
\* with TooFewArguments and [alice] gives name = alice.
C7_TooFewArguments ==
  /\ (ScanEnded /\ positionals # <<>>) => Failed("TooFewArguments")
  /\ (parser.actions = ReqActions /\ argStrings = <<>> /\ pc \notin
        {"start", "classify", "loop"}) => Failed("TooFewArguments")
  /\ (parser.actions = ReqActions /\ argStrings = <<tAlice>> /\ Over) =>
       pc # "error" /\ namespace["name"] = Str(tAlice)

\* the parse of [] against the required positional has failed
C7_Witness ==
  /\ parser.actions = ReqActions
  /\ argStrings = <<>>
  /\ positionals # <<>>
  /\ Failed("TooFewArguments")

\* [alice] has returned with name = alice
C7_WitnessAlice ==
  /\ Returned
  /\ parser.actions = ReqActions
  /\ argStrings = <<tAlice>>
  /\ namespace["name"] = Str(tAlice)

\* the values a stored value consists of
Scalars(value) == IF value.t = "list" THEN Range(value.items) ELSE {value}

\* C8 as claimed: no value outside the choice set of an Action is ever
\* stored for it (the namespace holds what was seeded or members of the
\* set), and [--level, medium] fails with InvalidChoice.
C8_AsClaimed ==
  /\ \A a \in 1..Len(parser.actions) :
       LET action == parser.actions[a]
       IN  (action.hasChoices /\ pc # "start") =>
             \/ namespace[action.dest] = PreSeeded[action.dest]
             \/ /\ Scalars(namespace[action.dest]) # {}
                /\ Scalars(namespace[action.dest]) \subseteq
                     Range(action.choices)
  /\ (parser.actions = ChoiceActions /\ argStrings = <<tLevel, tMedium>>
        /\ Over) => Failed("InvalidChoice")

\* C9 as claimed: when parseKnownArgs returns, every option-shaped token
\* that matched no Action is in extras; parseArgs fails exactly when the
\* extras are not empty.
C9_AsClaimed ==
  /\ Returned =>
       \A i \in DOMAIN optionStringIndices :
         (optionStringIndices[i].action = 0 /\ ~SeparatorBefore(i + 1)) =>
           argStrings[i + 1] \in Range(extras)
  /\ pc = "done" => extras = <<>>
  /\ Failed("UnrecognizedArguments") => extras # <<>>

\* C10 as claimed (for inputs without '--'): no Action of an arity other
\* than Remainder / ParserHandoff is handed a token that was classified
\* O, and an option of arity Exactly(1) or OneOrMore whose next token is
\* classified O is never fired.
C10_AsClaimed ==
  tSep \notin Range(argStrings) =>
    \A k \in 1..Len(events) :
      LET e == events[k]
          action == parser.actions[e.action]
      IN  /\ (action.nargs \notin {REMAINDER, PARSER} /\ e.from # NaN) =>
               \A j \in e.from..(e.from + Len(e.args) - 1) :
                 j \notin DOMAIN optionStringIndices
          /\ ( /\ e.at # NaN
               /\ action.nargs \in {NARGS_NULL, ONE_OR_MORE}
               /\ ~Truthy(optionStringIndices[e.at].explicitArg) ) =>
               (e.at + 1) \notin DOMAIN optionStringIndices

\* the classifier has gone through all of argStrings without an error
ClassifierDone == pc \in {"loop", "parsed", "known", "done"}

\* C11 as claimed: the pattern string the classifier builds has one
\* character per input token, and every index of the option-tuple map
\* has the character O at that index of the pattern.
C11_AsClaimed ==
  ClassifierDone =>
    /\ Len(argStringsPattern) = Len(argStrings)
    /\ \A i \in DOMAIN optionStringIndices :
         /\ i + 1 <= Len(argStringsPattern)
         /\ argStringsPattern[i + 1] = "O"

\* the (0-based) indices of the tokens consumeOptional took for options
OptionIndices == {events[k].at : k \in {j \in 1..Len(events) : events[j].at # NaN}}

\* the indices of the argument slice an Action was fired with
SliceIndices(e) ==
  IF e.from = NaN THEN {} ELSE e.from..(e.from + Len(e.args) - 1)

\* the indices that went to an option or to an Action's slice
Consumed == OptionIndices \cup UNION {SliceIndices(events[k]) : k \in 1..Len(events)}

\* the tokens at the indices i.. that are not in the set taken, in order
RECURSIVE Others(_, _, _)
Others(tokens, taken, i) ==
  IF i >= Len(tokens) THEN <<>>
  ELSE (IF i \in taken THEN <<>> ELSE <<tokens[i + 1]>>)
       \o Others(tokens, taken, i + 1)

\* every index is consumed at most once and extras is the rest, in order
Conserved ==
  /\ Consumed \subseteq 0..(Len(argStrings) - 1)
  /\ \A k \in 1..Len(events) :
       /\ SliceIndices(events[k]) \cap OptionIndices = {}
       /\ \A l \in 1..Len(events) :
            k # l => SliceIndices(events[k]) \cap SliceIndices(events[l]) = {}
  /\ extras = Others(argStrings, Consumed, 0)

\* C12 as claimed: when parseKnownArgs returns, every token index is
\* accounted for exactly once, as the option token of a consumeOptional
\* call, in the argument slice of one Action firing, or in extras, and
\* extras is in input order.
C12_AsClaimed == Returned => Conserved

\* the token is N=V with N a declared option string and the token itself
\* none
NameValue(p, token) ==
  /\ Contains(token, "=")
  /\ LookupOption(p, token) = 0
  /\ LookupOption(p, Slice(token, 0, FirstIndex(token, "=", 1) - 1)) # 0

\* N and V of the token N=V: the text before and after the first '='
NameOf(token) == Slice(token, 0, FirstIndex(token, "=", 1) - 1)
ValueOf(token) == Substr(token, FirstIndex(token, "=", 1))

\* C13 as claimed: a token N=V with N a declared option string resolves
\* to N's Action with the explicit argument V, the whole text behind
\* the first '='; when the Action has the default arity it is fired with
\* convert(V), from this token alone, and the parse of such a token by
\* itself returns.
C13_AsClaimed ==
  \A i \in 1..Len(argStrings) :
    LET token == argStrings[i]
        a == LookupOption(parser, NameOf(token))
    IN  (NameValue(parser, token) /\ ~SeparatorBefore(i)) =>
          /\ ClassifierDone =>
                /\ (i - 1) \in DOMAIN optionStringIndices
                /\ optionStringIndices[i - 1].action = a
                /\ optionStringIndices[i - 1].explicitArg = Str(ValueOf(token))
          /\ (Returned /\ parser.actions[a].nargs = NARGS_NULL) =>
                \E k \in 1..Len(events) :
                  /\ events[k].action = a
                  /\ events[k].at = i - 1
                  /\ events[k].from = NaN
                  /\ events[k].args = <<ValueOf(token)>>
          /\ ( /\ Over
               /\ Len(argStrings) = 1
               /\ parser.actions[a].nargs = NARGS_NULL ) => Returned

\* s is a declared option string of a zero-arity Action
ZeroArityOption(p, s) ==
  /\ LookupOption(p, s) # 0
  /\ p.actions[LookupOption(p, s)].nargs = "0"

\* the token is F=V with F a declared zero-arity option string of two
\* prefix characters and V not empty
ExplicitToFlag(p, token) ==
  /\ NameValue(p, token)
  /\ ZeroArityOption(p, NameOf(token))
  /\ Len(NameOf(token)) >= 2
  /\ NameOf(token)[2] \in p.prefixChars
  /\ ValueOf(token) # <<>>

\* the token is a single-dash cluster: declared zero-arity flags up to
\* the k-th character, then a character that is not a declared flag
BadCluster(p, token) ==
  /\ Len(token) >= 3
  /\ token[1] \in p.prefixChars
  /\ token[2] \notin p.prefixChars
  /\ Candidates(p, token) = Candidates(p, SubSeq(token, 1, 2))
  /\ LookupOption(p, token) = 0
  /\ \E k \in 2..(Len(token) - 1) :
       /\ \A j \in 2..k : ZeroArityOption(p, <<token[1], token[j]>>)
       /\ LookupOption(p, <<token[1], token[k + 1]>>) = 0

\* C14 as claimed: an input holding a token --flag=value for a zero-arity
\* double-prefix option, or a single-dash cluster of zero-arity flags
\* followed by a character that is no declared flag, fails; no Action is
\* fired for that token, and when it is the only token the error is
\* InvalidExplicitArgument.
C14_AsClaimed ==
  \A i \in 1..Len(argStrings) :
    ( /\ ExplicitToFlag(parser, argStrings[i])
         \/ BadCluster(parser, argStrings[i])
      /\ ~SeparatorBefore(i)
      /\ Over ) =>
        /\ pc = "error"
        /\ \A k \in 1..Len(events) : events[k].at # i - 1
        /\ Len(argStrings) = 1 => error = "InvalidExplicitArgument"

\* the parser has the single Action a, a positional that takes every
\* remaining token: nargs '...' or 'A...'
TakesEverything(p) ==
  /\ Len(p.actions) = 1
  /\ isPositional(p.actions[1])
  /\ p.actions[1].nargs \in {REMAINDER, PARSER}

\* parseInt of every token
IntsOf(tokens) == [k \in 1..Len(tokens) |-> parseInt(tokens[k])]

\* the list of the numbers
NumList(ints) == List([k \in 1..Len(ints) |-> Num(ints[k].n)])

\* what a parse of argStrings by a TakesEverything parser of type int
\* ends with when the choice check is made on the first value under the
\* condition checked
EndsAs(checked) ==
  LET action == parser.actions[1]
      ints == IntsOf(argStrings)
  IN  IF \E k \in 1..Len(ints) : ~ints[k].ok
      THEN Failed("TypeConversionError")
      ELSE IF /\ checked
              /\ Len(ints) >= 1
              /\ checkValue(action, Num(ints[1].n)) # "none"
      THEN Failed("InvalidChoice")
      ELSE /\ pc \in {"known", "done"}
           /\ namespace[action.dest] = NumList(ints)

\* C15 as claimed: for nargs '...' and 'A...' every matched token is
\* converted and exactly the first converted value is checked against
\* the choices.
C15_AsClaimed ==
  ( /\ TakesEverything(parser)
    /\ Over
    /\ parser.actions[1].nargs = PARSER => Len(argStrings) >= 1 ) =>
      EndsAs(TRUE)

\* C15: for nargs '...' every matched token is converted and no value is
\* checked against the choices; for nargs 'A...' every matched token is
\* converted and only the first converted value is put to the choice
\* check.
C15_ConvertAllCheckFirst ==
  ( /\ TakesEverything(parser)
    /\ Over
    /\ parser.actions[1].nargs = PARSER => Len(argStrings) >= 1 ) =>
      EndsAs(parser.actions[1].nargs = PARSER)

\* [5, 7] to the 'A...' positional with choices [5]: 7 is converted and
\* stored without a check
C15_Witness ==
  /\ parser.actions = HandoffActions
  /\ argStrings = <<t5, t7>>
  /\ Returned
  /\ namespace["cmd"] = List(<<Num(5), Num(7)>>)

\* [7, 5] to the '...' positional with choices [5]: nothing is checked
C15_WitnessRemainder ==
  /\ parser.actions = RestActions
  /\ argStrings = <<t7, t5>>
  /\ Returned
  /\ namespace["rest"] = List(<<Num(7), Num(5)>>)

\* a pass of the while loop that throws nothing leaves the scan index a
\* number greater than before
PassAdvances ==
  (pc = "loop" /\ LessEq(startIndex, maxOptionStringIndex)) =>
    \/ pc' = "error"
    \/ /\ pc' = "loop"
       /\ startIndex' # NaN
       /\ startIndex' > startIndex
       /\ iterations' = iterations + 1

\* C16: every pass of the while loop that does not throw strictly
\* increases the scan index, the loop makes at most
\* maxOptionStringIndex + 1 passes, and every call ends: it returns or
\* raises.
C16_Terminates ==
  /\ [][PassAdvances]_vars
  /\ [](iterations <= maxOptionStringIndex + 1)
  /\ <>Over

\* a call that returns after the loop has made maxOptionStringIndex + 1
\* passes, more than one
C16_Witness ==
  /\ Returned
  /\ iterations = maxOptionStringIndex + 1
  /\ iterations >= 2

\* the keys of Actions under which the caller's namespace holds a value
CallerKeys == {d \in DOMAIN given \cap Dests(parser) : given[d] # Undefined}

\* C17 as claimed: seeding the defaults leaves a value the caller gave
\* under an Action's dest as it is, and with an empty token list the
\* returned namespace still holds it.
C17_AsClaimed ==
  \A d \in CallerKeys :
    /\ pc = "classify" => namespace[d] = given[d]
    /\ (Returned /\ argStrings = <<>>) => namespace[d] = given[d]

====
